---- MODULE Spec2Model ----
(***************************************************************************)
(* Leader election of myENA/consul-candidate (package consultant).         *)
(*                                                                         *)
(* Several Candidates contend for one lock key of a Consul-like store.     *)
(* Each Candidate owns a session, a keep-alive task (sessionKeepAlive), a  *)
(* lock-acquisition task (lockRunner), a registry of update channels of    *)
(* capacity 1, and the flags leader and closing guarded by the mutex mu.   *)
(*                                                                         *)
(* A step of the model is one store request together with the in-memory    *)
(* work of the same task that follows it up to its next store request, or  *)
(* one mutex-guarded region of a public method.  The only place where a    *)
(* task stops inside a guarded region is the channel send of updateLeader, *)
(* which is modelled one send at a time with mu held.                      *)
(***************************************************************************)
EXTENDS Integers, Sequences, FiniteSets, TLC

\* ------------------------------------------------------------------ bounds
NumCands == 2          \* candidates on the lock key
NumListeners == 1      \* listener ids a caller may register per candidate
MaxFaults == 1         \* store requests that fail, plus sessions that expire
MaxRebuilds == 2       \* sessions created after construction
MaxIDLen == 3          \* characters of a candidate id handed to NewCandidate
MaxReadFailures == 12  \* reads of the lock key that fail in a row

\* --------------------------------------------------------- program constants
CandidateMaxWait == 10 \* maximum wait after failed lock checks
NoSession == 0         \* the empty session string ""
MinTTLSeconds == 10    \* lower limit of the TTL sent to the store
MaxTTLSeconds == 86400 \* upper limit of the TTL sent to the store
DefaultTTLSeconds == 30 \* the TTL of a candidate made with ttl ""

Cands == 1..NumCands
Listeners == 1..NumListeners
ManyListeners == 1..(NumListeners + 1)
NotifyCands == {1}
SessionIDs == 1..(NumCands + MaxRebuilds)
Tasks == {"lr", "ka"}

VARIABLES
    sessions,    \* store: the live sessions
    lock,        \* store: the lock entry, <<>> (no entry) or <<session>>
    created,     \* store: sessions created after construction
    faults,      \* failed requests and expiries so far
    leader,      \* Candidate.leader
    closing,     \* Candidate.closing
    sessionID,   \* Candidate.sessionID
    kvSession,   \* Candidate.kv.Session
    update,      \* Candidate.update: listener id -> channel content
    mu,          \* Candidate.mu is held (by a blocked updateLeader)
    wait,        \* Candidate.wait: the WaitGroup counter
    lrPC,        \* lockRunner: position
    kv,          \* lockRunner: the retrieved key (local kv)
    checkWait,   \* lockRunner: fail retry counter
    ulCall,      \* updateLeader in progress: its argument and return position
    pending,     \* updateLeader in progress: channels still to be sent to
    kaPC,        \* sessionKeepAlive: position
    rsPC,        \* the caller of Resign(): position
    waitPC,      \* the caller of Wait(): position
    ledBy,       \* history: the session that held the lock when leader was set
    call         \* the last call of a function that keeps no state: what it
                 \* was called with and what it returned

storeVars == <<sessions, lock, created, faults>>
candVars == <<leader, closing, sessionID, kvSession, update, mu, wait>>
lrVars == <<lrPC, kv, checkWait, ulCall, pending>>
vars == <<sessions, lock, created, faults, leader, closing, sessionID, kvSession,
          update, mu, wait, lrPC, kv, checkWait, ulCall, pending, kaPC, rsPC,
          waitPC, ledBy, call>>

NilKV == <<>>
NoCall == [v |-> FALSE, next |-> "get", session |-> NoSession]
NoReturn == [op |-> "none", arg |-> <<>>, ret |-> <<>>]

\* ------------------------------------------------------------------- store
\* Session invalidation with Behavior = delete: the session goes, and the lock
\* entry it holds is deleted.
Invalidate(s) ==
    /\ sessions' = sessions \ {s}
    /\ lock' = IF lock = <<s>> THEN NilKV ELSE lock

\* KV().Acquire: succeeds when the entry is unlocked or locked by the same session.
AcquireOK(s) == lock = NilKV \/ lock = <<NoSession>> \/ lock = <<s>>

\* Session().Info / Session().Renew on a session: nil when it is gone.
SessionFound(s) == s \in sessions

CanFail == faults < MaxFaults

\* ForeignLeaderService: the session entry of the lock holder, NoSession for
\* (nil, error).
LeaderService ==
    IF lock = NilKV THEN NoSession
    ELSE IF lock[1] # NoSession /\ SessionFound(lock[1]) THEN lock[1]
    ELSE NoSession

\* -------------------------------------------------------------------- init
Init ==
    /\ sessions = Cands
    /\ lock = NilKV
    /\ created = 0
    /\ faults = 0
    /\ leader = [c \in Cands |-> FALSE]
    /\ closing = [c \in Cands |-> FALSE]
    /\ sessionID = [c \in Cands |-> c]
    /\ kvSession = [c \in Cands |-> c]
    /\ update = [c \in Cands |-> <<>>]
    /\ mu = [c \in Cands |-> FALSE]
    /\ wait = [c \in Cands |-> 0]
    /\ lrPC = [c \in Cands |-> "start"]
    /\ kv = [c \in Cands |-> NilKV]
    /\ checkWait = [c \in Cands |-> 0]
    /\ ulCall = [c \in Cands |-> NoCall]
    /\ pending = [c \in Cands |-> {}]
    /\ kaPC = [c \in Cands |-> "start"]
    /\ rsPC = [c \in Cands |-> "idle"]
    /\ waitPC = [c \in Cands |-> "idle"]
    /\ ledBy = [c \in Cands |-> NoSession]
    /\ call = NoReturn


\* ------------------------------------------------------------ updateLeader
\* The channels updateLeader(v) sends to: all registered ones when the status
\* changes, none otherwise.
SendTargets(c, v) == IF v # leader[c] THEN DOMAIN update[c] ELSE {}

\* A send on a channel of capacity 1 goes through only while the channel is empty.
CanSend(c, l) == update[c][l] = <<>>

\* updateLeader(v), called by lockRunner, which goes on at `next`; s is the
\* session the lock was seen held by (kept in ledBy).  With every target
\* channel empty the whole guarded region is one step.  Otherwise the task
\* stays inside the region, mu held, and LRSend performs the sends.
updateLeader(c, v, s, next) ==
    /\ ~mu[c]
    /\ IF \A l \in SendTargets(c, v) : CanSend(c, l)
       THEN /\ update' = [update EXCEPT ![c] =
                    [l \in DOMAIN update[c] |->
                        IF l \in SendTargets(c, v) THEN <<v>> ELSE update[c][l]]]
            /\ leader' = [leader EXCEPT ![c] = v]
            /\ ledBy' = [ledBy EXCEPT ![c] = IF v THEN s ELSE NoSession]
            /\ lrPC' = [lrPC EXCEPT ![c] = next]
            /\ UNCHANGED <<mu, ulCall, pending>>
       ELSE /\ mu' = [mu EXCEPT ![c] = TRUE]
            /\ ulCall' = [ulCall EXCEPT ![c] = [v |-> v, next |-> next, session |-> s]]
            /\ pending' = [pending EXCEPT ![c] = SendTargets(c, v)]
            /\ lrPC' = [lrPC EXCEPT ![c] = "send"]
            /\ UNCHANGED <<update, leader, ledBy>>

\* One `cup <- v` of the range loop, and after the last one the flag update
\* and the release of mu.
LRSend(c) ==
    /\ lrPC[c] = "send"
    /\ \E l \in pending[c] :
        /\ CanSend(c, l)
        /\ update' = [update EXCEPT ![c][l] = <<ulCall[c].v>>]
        /\ pending' = [pending EXCEPT ![c] = @ \ {l}]
        /\ IF pending[c] = {l}
           THEN /\ leader' = [leader EXCEPT ![c] = ulCall[c].v]
                /\ ledBy' = [ledBy EXCEPT ![c] =
                        IF ulCall[c].v THEN ulCall[c].session ELSE NoSession]
                /\ mu' = [mu EXCEPT ![c] = FALSE]
                /\ lrPC' = [lrPC EXCEPT ![c] = ulCall[c].next]
                /\ ulCall' = [ulCall EXCEPT ![c] = NoCall]
           ELSE UNCHANGED <<leader, ledBy, mu, lrPC, ulCall>>
    /\ UNCHANGED <<storeVars, closing, sessionID, kvSession, wait, kv, checkWait,
                   kaPC, rsPC, waitPC, call>>

\* -------------------------------------------------------------- lockRunner
\* wait.Add(1), the first statement of the task.
LRStart(c) ==
    /\ lrPC[c] = "start"
    /\ wait' = [wait EXCEPT ![c] = @ + 1]
    /\ lrPC' = [lrPC EXCEPT ![c] = "get"]
    /\ UNCHANGED <<storeVars, leader, closing, sessionID, kvSession, update, mu,
                   kv, checkWait, ulCall, pending, kaPC, rsPC, waitPC, call, ledBy>>

\* The retry counter without its maximum.
BackoffNoCap(k) == k + 1

\* The retry counter after one more failed read: "increment counter up to
\* maximum value".
Backoff(k) == IF k < CandidateMaxWait THEN k + 1 ELSE k

\* KV().Get fails: count up to CandidateMaxWait, sleep, retry.
LRGetErr(c) ==
    /\ lrPC[c] = "get"
    /\ CanFail
    /\ faults' = faults + 1
    /\ checkWait' = [checkWait EXCEPT ![c] = Backoff(@)]
    /\ UNCHANGED <<sessions, lock, created, candVars, lrPC, kv, ulCall, pending,
                   kaPC, rsPC, waitPC, call, ledBy>>

\* How many reads of c have failed in a row (history, kept with the last
\* sleep): none when the last read was answered.
FailedReads(c) ==
    IF call.op = "time.Sleep" /\ call.arg.who = c /\ checkWait[c] > 0
    THEN call.arg.failed
    ELSE 0

\* KV().Get fails while the store cannot be reached, one read after the
\* other: count up to CandidateMaxWait, time.Sleep for that many seconds,
\* retry.
LRGetOutage(c) ==
    /\ lrPC[c] = "get"
    /\ FailedReads(c) < MaxReadFailures
    /\ checkWait' = [checkWait EXCEPT ![c] = Backoff(@)]
    /\ call' = [op |-> "time.Sleep",
                arg |-> [who |-> c, failed |-> FailedReads(c) + 1],
                ret |-> Backoff(checkWait[c])]
    /\ UNCHANGED <<storeVars, candVars, lrPC, kv, ulCall, pending, kaPC, rsPC,
                   waitPC, ledBy>>

\* LRExit without the check of closing: the loop goes on.
LRExitIgnoreClosing(c) ==
    /\ lrPC[c] = "get"
    /\ closing[c]
    /\ checkWait' = [checkWait EXCEPT ![c] = 0]
    /\ kv' = [kv EXCEPT ![c] = lock]
    /\ lrPC' = [lrPC EXCEPT ![c] = "decide"]
    /\ UNCHANGED <<storeVars, candVars, ulCall, pending, kaPC, rsPC, waitPC, call, ledBy>>

\* KV().Get answers while closing is set: the task returns (wait.Done).
LRExit(c) ==
    /\ lrPC[c] = "get"
    /\ closing[c]
    /\ checkWait' = [checkWait EXCEPT ![c] = 0]
    /\ kv' = [kv EXCEPT ![c] = lock]
    /\ wait' = [wait EXCEPT ![c] = @ - 1]
    /\ lrPC' = [lrPC EXCEPT ![c] = "done"]
    /\ UNCHANGED <<storeVars, leader, closing, sessionID, kvSession, update, mu,
                   ulCall, pending, kaPC, rsPC, waitPC, call, ledBy>>

\* KV().Get answers while closing is not set: the retry counter is reset and
\* the entry kept for the decision.
LRGetOk(c) ==
    /\ lrPC[c] = "get"
    /\ ~closing[c]
    /\ checkWait' = [checkWait EXCEPT ![c] = 0]
    /\ kv' = [kv EXCEPT ![c] = lock]
    /\ lrPC' = [lrPC EXCEPT ![c] = "decide"]
    /\ UNCHANGED <<storeVars, candVars, ulCall, pending, kaPC, rsPC, waitPC, call, ledBy>>

\* LRDecide with the comparison against c.SessionID() lost: any session on
\* the entry is taken for our own.
LRDecideAnySession(c) ==
    /\ lrPC[c] = "decide"
    /\ ~mu[c]
    /\ IF kv[c] # NilKV /\ kv[c][1] # NoSession
       THEN /\ updateLeader(c, TRUE, kv[c][1], "get")
            /\ UNCHANGED kv
       ELSE /\ kv' = [kv EXCEPT ![c] = NilKV]
            /\ updateLeader(c, FALSE, NoSession, "acquire")
    /\ UNCHANGED <<storeVars, closing, sessionID, kvSession, wait, checkWait,
                   kaPC, rsPC, waitPC, call>>

\* LRDecide that never goes on to the acquisition of a free lock.
LRDecideNoAcquire(c) ==
    /\ lrPC[c] = "decide"
    /\ ~mu[c]
    /\ IF kv[c] # NilKV /\ kv[c][1] = sessionID[c]
       THEN /\ updateLeader(c, TRUE, kv[c][1], "get")
            /\ UNCHANGED kv
       ELSE IF kv[c] # NilKV /\ kv[c][1] # NoSession
       THEN /\ lrPC' = [lrPC EXCEPT ![c] = "info"]
            /\ UNCHANGED <<kv, leader, update, mu, ulCall, pending, ledBy>>
       ELSE /\ kv' = [kv EXCEPT ![c] = NilKV]
            /\ updateLeader(c, FALSE, NoSession, "get")
    /\ UNCHANGED <<storeVars, closing, sessionID, kvSession, wait, checkWait,
                   kaPC, rsPC, waitPC, call>>

\* The decision on the retrieved entry: our own session -> leader; another
\* session -> look it up; no entry or no session -> follower, then acquire.
LRDecide(c) ==
    /\ lrPC[c] = "decide"
    /\ ~mu[c]
    /\ IF kv[c] # NilKV /\ kv[c][1] = sessionID[c]
       THEN /\ updateLeader(c, TRUE, kv[c][1], "get")
            /\ UNCHANGED kv
       ELSE IF kv[c] # NilKV /\ kv[c][1] # NoSession
       THEN /\ lrPC' = [lrPC EXCEPT ![c] = "info"]
            /\ UNCHANGED <<kv, leader, update, mu, ulCall, pending, ledBy>>
       ELSE /\ kv' = [kv EXCEPT ![c] = NilKV]
            /\ updateLeader(c, FALSE, NoSession, "acquire")
    /\ UNCHANGED <<storeVars, closing, sessionID, kvSession, wait, checkWait,
                   kaPC, rsPC, waitPC, call>>

\* Session().Info fails: renew/rebuild the session, then the next iteration.
LRInfoErr(c) ==
    /\ lrPC[c] = "info"
    /\ CanFail
    /\ faults' = faults + 1
    /\ lrPC' = [lrPC EXCEPT ![c] = "svRenew"]
    /\ UNCHANGED <<sessions, lock, created, candVars, kv, checkWait, ulCall,
                   pending, kaPC, rsPC, waitPC, call, ledBy>>

\* LRInfoOk that goes on to the acquisition whatever Session().Info answers.
LRInfoOkAcquire(c) ==
    /\ lrPC[c] = "info"
    /\ kv' = [kv EXCEPT ![c] = NilKV]
    /\ updateLeader(c, FALSE, NoSession, "acquire")
    /\ UNCHANGED <<storeVars, closing, sessionID, kvSession, wait, checkWait,
                   kaPC, rsPC, waitPC, call>>

\* Session().Info answers: a nil entry frees the lock for us; then "not the
\* leader", and on to the acquisition when the lock is free.
LRInfoOk(c) ==
    /\ lrPC[c] = "info"
    /\ IF SessionFound(kv[c][1])
       THEN /\ updateLeader(c, FALSE, NoSession, "get")
            /\ UNCHANGED kv
       ELSE /\ kv' = [kv EXCEPT ![c] = NilKV]
            /\ updateLeader(c, FALSE, NoSession, "acquire")
    /\ UNCHANGED <<storeVars, closing, sessionID, kvSession, wait, checkWait,
                   kaPC, rsPC, waitPC, call>>

\* KV().Acquire fails on the way to the store.
LRAcquireErr(c) ==
    /\ lrPC[c] = "acquire"
    /\ CanFail
    /\ faults' = faults + 1
    /\ lrPC' = [lrPC EXCEPT ![c] = "svRenew"]
    /\ UNCHANGED <<sessions, lock, created, candVars, kv, checkWait, ulCall,
                   pending, kaPC, rsPC, waitPC, call, ledBy>>

\* KV().Acquire with a session the store does not know: the store answers
\* with an error (invalid session).
LRAcquireInvalid(c) ==
    /\ lrPC[c] = "acquire"
    /\ ~SessionFound(kvSession[c])
    /\ lrPC' = [lrPC EXCEPT ![c] = "svRenew"]
    /\ UNCHANGED <<storeVars, candVars, kv, checkWait, ulCall, pending, kaPC,
                   rsPC, waitPC, call, ledBy>>

\* LRAcquire that takes every answer without error for "acquired".
LRAcquireIgnoreOk(c) ==
    /\ lrPC[c] = "acquire"
    /\ SessionFound(kvSession[c])
    /\ lock' = IF AcquireOK(kvSession[c]) THEN <<kvSession[c]>> ELSE lock
    /\ updateLeader(c, TRUE, kvSession[c], "get")
    /\ UNCHANGED <<sessions, created, faults, closing, sessionID, kvSession, wait,
                   kv, checkWait, kaPC, rsPC, waitPC, call>>

\* KV().Acquire answers: acquired -> leader; not acquired -> next iteration.
LRAcquire(c) ==
    /\ lrPC[c] = "acquire"
    /\ SessionFound(kvSession[c])
    /\ IF AcquireOK(kvSession[c])
       THEN /\ lock' = <<kvSession[c]>>
            /\ updateLeader(c, TRUE, kvSession[c], "get")
       ELSE /\ lrPC' = [lrPC EXCEPT ![c] = "get"]
            /\ UNCHANGED <<lock, leader, update, mu, ulCall, pending, ledBy>>
    /\ UNCHANGED <<sessions, created, faults, closing, sessionID, kvSession, wait,
                   kv, checkWait, kaPC, rsPC, waitPC, call>>


\* --------------------------------------------------------- sessionValidate
\* sessionValidate is run by both tasks: by lockRunner from "svRenew", by
\* sessionKeepAlive at a tick at which closing is not set.
PCOf(c, t) == IF t = "lr" THEN lrPC[c] ELSE kaPC[c]

AtRenew(c, t) ==
    \/ t = "lr" /\ lrPC[c] = "svRenew"
    \/ t = "ka" /\ kaPC[c] = "tick" /\ ~closing[c]

\* The task goes to position p of sessionValidate; "return" is the return to
\* the caller: lockRunner's next iteration, sessionKeepAlive's next tick.
SVGoto(c, t, p) ==
    IF t = "lr"
    THEN /\ lrPC' = [lrPC EXCEPT ![c] = IF p = "return" THEN "get" ELSE p]
         /\ UNCHANGED kaPC
    ELSE /\ kaPC' = [kaPC EXCEPT ![c] = IF p = "return" THEN "tick" ELSE p]
         /\ UNCHANGED lrPC

\* Session().Renew(c.SessionID()) answers with the session: renew okay.
SVRenewOk(c, t) ==
    /\ AtRenew(c, t)
    /\ ~mu[c]
    /\ SessionFound(sessionID[c])
    /\ SVGoto(c, t, "return")
    /\ UNCHANGED <<storeVars, candVars, kv, checkWait, ulCall, pending, rsPC,
                   waitPC, call, ledBy>>

\* Session().Renew answers nil (session not found): recreate the session.
SVRenewNil(c, t) ==
    /\ AtRenew(c, t)
    /\ ~mu[c]
    /\ ~SessionFound(sessionID[c])
    /\ SVGoto(c, t, "svCreate")
    /\ UNCHANGED <<storeVars, candVars, kv, checkWait, ulCall, pending, rsPC,
                   waitPC, call, ledBy>>

\* SVRenewErr that leaves out the Destroy.
SVRenewErrNoDestroy(c, t) ==
    /\ AtRenew(c, t)
    /\ ~mu[c]
    /\ CanFail
    /\ faults' = faults + 1
    /\ SVGoto(c, t, "svCreate")
    /\ UNCHANGED <<sessions, lock, created, candVars, kv, checkWait, ulCall,
                   pending, rsPC, waitPC, call, ledBy>>

\* Session().Renew fails: destroy the session, then recreate it.
SVRenewErr(c, t) ==
    /\ AtRenew(c, t)
    /\ ~mu[c]
    /\ CanFail
    /\ faults' = faults + 1
    /\ SVGoto(c, t, "svDestroy")
    /\ UNCHANGED <<sessions, lock, created, candVars, kv, checkWait, ulCall,
                   pending, rsPC, waitPC, call, ledBy>>

\* Session().Destroy(c.SessionID()) after the failed renewal; its result is
\* ignored.
SVDestroy(c, t) ==
    /\ PCOf(c, t) = "svDestroy"
    /\ ~mu[c]
    /\ \/ Invalidate(sessionID[c]) /\ UNCHANGED faults
       \/ CanFail /\ faults' = faults + 1 /\ UNCHANGED <<sessions, lock>>
    /\ SVGoto(c, t, "svCreate")
    /\ UNCHANGED <<created, candVars, kv, checkWait, ulCall, pending, rsPC,
                   waitPC, call, ledBy>>

\* SVCreateErr after which sessionKeepAlive gives up.
SVCreateErrGiveUp(c, t) ==
    /\ PCOf(c, t) = "svCreate"
    /\ CanFail
    /\ faults' = faults + 1
    /\ IF t = "ka"
       THEN /\ kaPC' = [kaPC EXCEPT ![c] = "done"]
            /\ wait' = [wait EXCEPT ![c] = @ - 1]
            /\ UNCHANGED lrPC
       ELSE SVGoto(c, t, "return") /\ UNCHANGED wait
    /\ UNCHANGED <<sessions, lock, created, leader, closing, sessionID, kvSession,
                   update, mu, kv, checkWait, ulCall, pending, rsPC, waitPC, call,
                   ledBy>>

\* Session().Create fails: logged, sessionValidate returns.
SVCreateErr(c, t) ==
    /\ PCOf(c, t) = "svCreate"
    /\ CanFail
    /\ faults' = faults + 1
    /\ SVGoto(c, t, "return")
    /\ UNCHANGED <<sessions, lock, created, candVars, kv, checkWait, ulCall,
                   pending, rsPC, waitPC, call, ledBy>>

\* SVCreate that leaves the lock pair with the old session.
SVCreateKeepPair(c, t) ==
    /\ PCOf(c, t) = "svCreate"
    /\ ~mu[c]
    /\ created < MaxRebuilds
    /\ LET sid == NumCands + created + 1 IN
        /\ created' = created + 1
        /\ sessions' = sessions \cup {sid}
        /\ sessionID' = [sessionID EXCEPT ![c] = sid]
    /\ SVGoto(c, t, "return")
    /\ UNCHANGED <<lock, faults, leader, closing, kvSession, update, mu, wait, kv,
                   checkWait, ulCall, pending, rsPC, waitPC, call, ledBy>>

\* Session().Create answers with a new id, which becomes the session of the
\* candidate and of its lock pair (under mu).
SVCreate(c, t) ==
    /\ PCOf(c, t) = "svCreate"
    /\ ~mu[c]
    /\ created < MaxRebuilds
    /\ LET sid == NumCands + created + 1 IN
        /\ created' = created + 1
        /\ sessions' = sessions \cup {sid}
        /\ sessionID' = [sessionID EXCEPT ![c] = sid]
        /\ kvSession' = [kvSession EXCEPT ![c] = sid]
    /\ SVGoto(c, t, "return")
    /\ UNCHANGED <<lock, faults, leader, closing, update, mu, wait, kv, checkWait,
                   ulCall, pending, rsPC, waitPC, call, ledBy>>

\* -------------------------------------------------------- sessionKeepAlive
\* wait.Add(1), the first statement of the task.
KAStart(c) ==
    /\ kaPC[c] = "start"
    /\ wait' = [wait EXCEPT ![c] = @ + 1]
    /\ kaPC' = [kaPC EXCEPT ![c] = "tick"]
    /\ UNCHANGED <<storeVars, leader, closing, sessionID, kvSession, update, mu,
                   lrVars, rsPC, waitPC, call, ledBy>>

\* KAClose that returns without destroying the session.
KACloseNoDestroy(c) ==
    /\ kaPC[c] = "tick"
    /\ closing[c]
    /\ wait' = [wait EXCEPT ![c] = @ - 1]
    /\ kaPC' = [kaPC EXCEPT ![c] = "done"]
    /\ UNCHANGED <<storeVars, leader, closing, sessionID, kvSession, update,
                   mu, lrVars, rsPC, waitPC, call, ledBy>>

\* A tick at which closing is set: Session().Destroy(c.sessionID), then the
\* task returns (wait.Done).  closing and sessionID are read without mu.
KAClose(c) ==
    /\ kaPC[c] = "tick"
    /\ closing[c]
    /\ Invalidate(sessionID[c])
    /\ wait' = [wait EXCEPT ![c] = @ - 1]
    /\ kaPC' = [kaPC EXCEPT ![c] = "done"]
    /\ UNCHANGED <<created, faults, leader, closing, sessionID, kvSession, update,
                   mu, lrVars, rsPC, waitPC, call, ledBy>>

\* The same tick with the Destroy request failing: logged, the task returns.
KACloseErr(c) ==
    /\ kaPC[c] = "tick"
    /\ closing[c]
    /\ CanFail
    /\ faults' = faults + 1
    /\ wait' = [wait EXCEPT ![c] = @ - 1]
    /\ kaPC' = [kaPC EXCEPT ![c] = "done"]
    /\ UNCHANGED <<sessions, lock, created, leader, closing, sessionID, kvSession,
                   update, mu, lrVars, rsPC, waitPC, call, ledBy>>

\* ------------------------------------------------------------------ Resign
\* A caller enters Resign() (again, once the previous call has returned).
ResignCall(c) ==
    /\ rsPC[c] \in {"idle", "noop", "returned"}
    /\ rsPC' = [rsPC EXCEPT ![c] = "called"]
    /\ UNCHANGED <<storeVars, candVars, lrVars, kaPC, waitPC, call, ledBy>>

\* Resign() without the early return.
ResignAlways(c) ==
    /\ rsPC[c] = "called"
    /\ ~mu[c]
    /\ leader' = [leader EXCEPT ![c] = FALSE]
    /\ closing' = [closing EXCEPT ![c] = TRUE]
    /\ ledBy' = [ledBy EXCEPT ![c] = NoSession]
    /\ rsPC' = [rsPC EXCEPT ![c] = "waiting"]
    /\ UNCHANGED <<storeVars, sessionID, kvSession, update, mu, wait, lrVars,
                   kaPC, waitPC, call>>

\* Resign() whose early return takes closing back.
ResignReopen(c) ==
    /\ rsPC[c] = "called"
    /\ ~mu[c]
    /\ IF ~leader[c] /\ closing[c]
       THEN /\ rsPC' = [rsPC EXCEPT ![c] = "noop"]
            /\ closing' = [closing EXCEPT ![c] = FALSE]
            /\ UNCHANGED <<leader, ledBy>>
       ELSE /\ leader' = [leader EXCEPT ![c] = FALSE]
            /\ closing' = [closing EXCEPT ![c] = TRUE]
            /\ ledBy' = [ledBy EXCEPT ![c] = NoSession]
            /\ rsPC' = [rsPC EXCEPT ![c] = "waiting"]
    /\ UNCHANGED <<storeVars, sessionID, kvSession, update, mu, wait, lrVars,
                   kaPC, waitPC, call>>

\* The guarded region of Resign(): when not leader and already closing the
\* call returns at once ("noop"); otherwise leader = false, closing = true,
\* and on to wait.Wait().
Resign(c) ==
    /\ rsPC[c] = "called"
    /\ ~mu[c]
    /\ IF ~leader[c] /\ closing[c]
       THEN /\ rsPC' = [rsPC EXCEPT ![c] = "noop"]
            /\ UNCHANGED <<leader, closing, ledBy>>
       ELSE /\ leader' = [leader EXCEPT ![c] = FALSE]
            /\ closing' = [closing EXCEPT ![c] = TRUE]
            /\ ledBy' = [ledBy EXCEPT ![c] = NoSession]
            /\ rsPC' = [rsPC EXCEPT ![c] = "waiting"]
    /\ UNCHANGED <<storeVars, sessionID, kvSession, update, mu, wait, lrVars,
                   kaPC, waitPC, call>>

\* wait.Wait() returns: the WaitGroup counter is zero.
ResignReturn(c) ==
    /\ rsPC[c] = "waiting"
    /\ wait[c] = 0
    /\ rsPC' = [rsPC EXCEPT ![c] = "returned"]
    /\ UNCHANGED <<storeVars, candVars, lrVars, kaPC, waitPC, call, ledBy>>

\* ------------------------------------------------------- listener registry
\* RegisterUpdate(id) that makes a new channel for every id, registered or not.
RegisteredAnew(c, l) ==
    [x \in DOMAIN update[c] \cup {l} |-> IF x = l THEN <<>> ELSE update[c][x]]

\* The registry after RegisterUpdate(id): the channel of a registered id is
\* kept as it is, any other id gets a new empty channel.
Registered(c, l) ==
    IF l \in DOMAIN update[c]
    THEN update[c]
    ELSE [x \in DOMAIN update[c] \cup {l} |-> IF x = l THEN <<>> ELSE update[c][x]]

\* RegisterUpdate(id)
RegisterUpdate(c, l) ==
    /\ ~mu[c]
    /\ update' = [update EXCEPT ![c] = Registered(c, l)]
    /\ UNCHANGED <<storeVars, leader, closing, sessionID, kvSession, mu, wait,
                   lrVars, kaPC, rsPC, waitPC, call, ledBy>>

\* DeregisterUpdate(id)
DeregisterUpdate(c, l) ==
    /\ ~mu[c]
    /\ l \in DOMAIN update[c]
    /\ update' = [update EXCEPT ![c] =
            [x \in DOMAIN update[c] \ {l} |-> update[c][x]]]
    /\ UNCHANGED <<storeVars, leader, closing, sessionID, kvSession, mu, wait,
                   lrVars, kaPC, rsPC, waitPC, call, ledBy>>

\* DeregisterUpdates()
DeregisterUpdates(c) ==
    /\ ~mu[c]
    /\ DOMAIN update[c] # {}
    /\ update' = [update EXCEPT ![c] = <<>>]
    /\ UNCHANGED <<storeVars, leader, closing, sessionID, kvSession, mu, wait,
                   lrVars, kaPC, rsPC, waitPC, call, ledBy>>

\* The subscriber takes the value out of its channel.
Receive(c, l) ==
    /\ l \in DOMAIN update[c]
    /\ update[c][l] # <<>>
    /\ update' = [update EXCEPT ![c][l] = <<>>]
    /\ UNCHANGED <<storeVars, leader, closing, sessionID, kvSession, mu, wait,
                   lrVars, kaPC, rsPC, waitPC, call, ledBy>>

\* -------------------------------------------------------------------- Wait
\* A caller enters Wait().
WaitCall(c) ==
    /\ waitPC[c] = "idle"
    /\ waitPC' = [waitPC EXCEPT ![c] = "polling"]
    /\ UNCHANGED <<storeVars, candVars, lrVars, kaPC, rsPC, ledBy, call>>

\* The poll of Wait() that finds a leader: LeaderService() returns no error
\* and Wait() returns.  A poll that finds none sleeps and leaves all as it is.
WaitPoll(c) ==
    /\ waitPC[c] = "polling"
    /\ LeaderService # NoSession
    /\ waitPC' = [waitPC EXCEPT ![c] = "returned"]
    /\ UNCHANGED <<storeVars, candVars, lrVars, kaPC, rsPC, ledBy, call>>

\* ---------------------------------------------------- ForeignLeaderService
\* A caller is inside ForeignLeaderService on candidate c, between its Get
\* and its Info.
Looking(c) ==
    call.op = "ForeignLeaderService" /\ call.arg.who = c /\ ~call.ret.done

NotLooking == call.op = "none" \/ (call.op = "ForeignLeaderService" /\ call.ret.done)

\* KV().Get(c.kv.Key): no entry, or an entry without session, is (nil,
\* error) at once; with a session on the entry the call goes on to Info.
ForeignLeaderServiceGet(c) ==
    /\ NotLooking
    /\ call' = [op |-> "ForeignLeaderService",
                arg |-> [who |-> c, kv |-> lock],
                ret |-> [done |-> lock = NilKV \/ lock[1] = NoSession,
                         se |-> NoSession]]
    /\ UNCHANGED <<storeVars, candVars, lrVars, kaPC, rsPC, waitPC, ledBy>>

\* ForeignLeaderServiceInfo that answers from the candidate's own flag and
\* session instead of the store.
ForeignLeaderServiceOwn(c) ==
    /\ Looking(c)
    /\ call' = [call EXCEPT !.ret =
            [done |-> TRUE,
             se |-> IF leader[c] THEN sessionID[c]
                    ELSE IF SessionFound(call.arg.kv[1]) THEN call.arg.kv[1]
                    ELSE NoSession]]
    /\ UNCHANGED <<storeVars, candVars, lrVars, kaPC, rsPC, waitPC, ledBy>>

\* Session().Info(kv.Session): the session entry is returned, or (nil,
\* error) when the store has no such session.
ForeignLeaderServiceInfo(c) ==
    /\ Looking(c)
    /\ call' = [call EXCEPT !.ret =
            [done |-> TRUE,
             se |-> IF SessionFound(call.arg.kv[1]) THEN call.arg.kv[1]
                    ELSE NoSession]]
    /\ UNCHANGED <<storeVars, candVars, lrVars, kaPC, rsPC, waitPC, ledBy>>

\* The Get or the Info fails: (nil, error).
ForeignLeaderServiceErr(c) ==
    /\ NotLooking \/ Looking(c)
    /\ CanFail
    /\ faults' = faults + 1
    /\ call' = [op |-> "ForeignLeaderService",
                arg |-> [who |-> c, kv |-> NilKV],
                ret |-> [done |-> TRUE, se |-> NoSession]]
    /\ UNCHANGED <<sessions, lock, created, candVars, lrVars, kaPC, rsPC, waitPC,
                   ledBy>>

\* ---------------------------------------------------------- shared fields
\* Who touches the fields of a candidate: its two tasks and the caller of
\* Resign().
Agents == Tasks \cup {"resign"}

\* The fields task t reads without holding mu in its next step: lockRunner
\* reads c.closing after the Get and c.sessionID for the log line after the
\* Acquire; sessionKeepAlive reads c.closing at the tick and, when it is
\* set, c.sessionID for the Destroy.
ReadsUnguarded(c, t) ==
    IF t = "lr"
    THEN CASE lrPC[c] = "get" -> {"closing"}
           [] lrPC[c] = "acquire" -> {"sessionID"}
           [] OTHER -> {}
    ELSE IF kaPC[c] = "tick"
         THEN {"closing"} \cup (IF closing[c] THEN {"sessionID"} ELSE {})
         ELSE {}

\* The fields agent a writes (holding mu) in its next step: Resign() the
\* two flags, sessionValidate the session id, updateLeader the leader flag.
Writes(c, a) ==
    IF a = "resign"
    THEN IF rsPC[c] = "called" /\ ~(~leader[c] /\ closing[c])
         THEN {"leader", "closing"} ELSE {}
    ELSE (IF PCOf(c, a) = "svCreate" THEN {"sessionID"} ELSE {})
         \cup (IF a = "lr" /\ lrPC[c] \in {"decide", "info", "acquire", "send"}
               THEN {"leader"} ELSE {})

\* ------------------------------------------------------------- environment
\* The TTL of a session runs out at the store.
SessionExpire(s) ==
    /\ s \in sessions
    /\ CanFail
    /\ faults' = faults + 1
    /\ Invalidate(s)
    /\ UNCHANGED <<created, candVars, lrVars, kaPC, rsPC, waitPC, call, ledBy>>

\* ------------------------------------------------------------ NewCandidate
\* Strings are sequences of characters.  "a" stands for the letters and
\* digits; the prefix "leader" is written as one character, as it holds no
\* hyphen and no space.
ValidIDChars == {"a", ":", ".", "_", "-"}
Alphabet == {"a", "-", " ", "/"}
IDs == UNION {[1..n -> Alphabet] : n \in 0..MaxIDLen}
NodeNames == {<<"n">>, <<"n", "-", "a">>}
Tokens == {<<"t">>}

\* strings.TrimSpace
RECURSIVE TrimLeft(_)
TrimLeft(s) == IF s # <<>> /\ Head(s) = " " THEN TrimLeft(Tail(s)) ELSE s

RECURSIVE TrimRight(_)
TrimRight(s) ==
    IF s # <<>> /\ s[Len(s)] = " " THEN TrimRight(SubSeq(s, 1, Len(s) - 1)) ELSE s

TrimSpace(s) == TrimRight(TrimLeft(s))

\* validCandidateIDTest.MatchString for the expression [a-zA-Z0-9:._-]+,
\* which has no anchors: the string matches when some part of it, of one
\* character or more, is made of characters of the class.
validCandidateIDTest(s) ==
    \E i \in 1..Len(s) : \E j \in i..Len(s) :
        \A k \in i..j : s[k] \in ValidIDChars

\* fmt.Sprintf("leader-%s-%s-%s", id, c.client.MyNode(), shortuuid.New())
SessionName(id, node, token) ==
    <<"leader", "-">> \o id \o <<"-">> \o node \o <<"-">> \o token

\* TTL strings are written <<n, unit>>: <<0, "">> is the empty string, a
\* number with a unit of Units is that duration, and a number with the unit
\* "?" is a string time.ParseDuration does not take ("10", "10x").
Units == {"ms", "s", "m", "h"}
EmptyTTL == <<0, "">>
TTLRequests ==
    {EmptyTTL, <<10, "?">>, <<-5, "s">>, <<0, "s">>, <<1, "s">>, <<9999, "ms">>,
     <<10, "s">>, <<10001, "ms">>, <<30, "s">>, <<1, "m">>, <<24, "h">>,
     <<86400, "s">>, <<86401, "s">>, <<25, "h">>, <<999999, "s">>}

UnitMs(u) ==
    CASE u = "ms" -> 1 [] u = "s" -> 1000 [] u = "m" -> 60000 [] u = "h" -> 3600000

\* time.ParseDuration, the duration in milliseconds.
ParseDuration(t) ==
    IF t[2] \in Units
    THEN [err |-> FALSE, ms |-> t[1] * UnitMs(t[2])]
    ELSE [err |-> TRUE, ms |-> 0]

\* The TTL of the session entry without the lower limit.
WireTTLNoFloor(ttl, ms) ==
    IF MaxTTLSeconds * 1000 < ms THEN <<MaxTTLSeconds, "s">> ELSE ttl

\* "stay within the limits": the TTL of the session entry for the ttl
\* string and its duration.
WireTTL(ttl, ms) ==
    IF MinTTLSeconds * 1000 > ms THEN <<MinTTLSeconds, "s">>
    ELSE IF MaxTTLSeconds * 1000 < ms THEN <<MaxTTLSeconds, "s">>
    ELSE ttl

\* sessionKeepAlive's ticker interval for c.sessionTTL (milliseconds): half
\* of it, and at least one second.
SleepDuration(ttl) == IF ttl \div 2 < 1000 THEN 1000 ELSE ttl \div 2

NoCandidate(e) ==
    [err |-> e, id |-> <<>>, name |-> <<>>, wireTTL |-> EmptyTTL, sessionTTL |-> 0,
     sleepDuration |-> 0, createSent |-> FALSE, started |-> FALSE]

\* NewCandidate(client, id, key, ttl) on node `node`, with shortuuid.New()
\* giving `token` and Session().Create answering (ok) or failing.  The
\* result says which error came back ("" for none), what was put into the
\* session entry, whether the Create request was sent, whether the two
\* tasks were started, and the ticker interval sessionKeepAlive then takes.
NewCandidate(id0, node, token, ttl0, ok) ==
    LET id == TrimSpace(id0)
        ttl == IF ttl0 = EmptyTTL THEN <<DefaultTTLSeconds, "s">> ELSE ttl0
        d == ParseDuration(ttl)
    IN  IF ~validCandidateIDTest(id) THEN NoCandidate("id")
        ELSE IF d.err THEN NoCandidate("ttl")
        ELSE [err |-> IF ok THEN "" ELSE "create",
              id |-> id,
              name |-> SessionName(id, node, token),
              wireTTL |-> WireTTL(ttl, d.ms),
              sessionTTL |-> d.ms,
              sleepDuration |-> IF ok THEN SleepDuration(d.ms) ELSE 0,
              createSent |-> TRUE,
              started |-> ok]

\* The call of NewCandidate that makes the candidate returns.
NewCandidateCall(id, node, token, ttl, ok) ==
    /\ call = NoReturn
    /\ call' = [op |-> "NewCandidate",
                arg |-> [id |-> id, node |-> node, token |-> token, ttl |-> ttl],
                ret |-> NewCandidate(id, node, token, ttl, ok)]
    /\ UNCHANGED <<storeVars, candVars, lrVars, kaPC, rsPC, waitPC, ledBy>>

\* strings.Split(s, "-")
RECURSIVE Split(_)
Split(s) ==
    IF \A i \in 1..Len(s) : s[i] # "-" THEN <<s>>
    ELSE LET i == CHOOSE i \in 1..Len(s) :
                    s[i] = "-" /\ \A j \in 1..(i - 1) : s[j] # "-"
         IN  <<SubSeq(s, 1, i - 1)>> \o Split(SubSeq(s, i + 1, Len(s)))

NoParts == [Prefix |-> <<>>, ID |-> <<>>, NodeName |-> <<>>, RandomUUID |-> <<>>]

ParseCandidateSessionName(name) ==
    LET split == Split(name) IN
    IF 4 # Len(split) THEN [err |-> TRUE, parts |-> NoParts]
    ELSE [err |-> FALSE,
          parts |-> [Prefix |-> split[1], ID |-> split[2],
                     NodeName |-> split[3], RandomUUID |-> split[4]]]

\* ParseCandidateSessionName on the session name of the candidate that
\* NewCandidate has just returned.
ParseCall ==
    /\ call.op = "NewCandidate"
    /\ call.ret.err = ""
    /\ call' = [op |-> "ParseCandidateSessionName",
                arg |-> [id |-> call.ret.id, node |-> call.arg.node,
                         token |-> call.arg.token, name |-> call.ret.name],
                ret |-> ParseCandidateSessionName(call.ret.name)]
    /\ UNCHANGED <<storeVars, candVars, lrVars, kaPC, rsPC, waitPC, ledBy>>

\* --------------------------------------------------------- specifications
\* Every store request answered: the two tasks of each candidate.
Election ==
    \/ \E c \in Cands : LRStart(c)
    \/ \E c \in Cands : LRGetOk(c)
    \/ \E c \in Cands : LRDecide(c)
    \/ \E c \in Cands : LRInfoOk(c)
    \/ \E c \in Cands : LRAcquire(c)
    \/ \E c \in Cands : KAStart(c)
    \/ \E c \in Cands, t \in Tasks : SVRenewOk(c, t)

\* Resignation, and what the tasks do once closing is set.
Resignation ==
    \/ \E c \in Cands : ResignCall(c)
    \/ \E c \in Cands : Resign(c)
    \/ \E c \in Cands : ResignReturn(c)
    \/ \E c \in Cands : LRExit(c)
    \/ \E c \in Cands : KAClose(c)
    \/ \E c \in Cands : LRAcquireInvalid(c)
    \/ \E c \in Cands, t \in Tasks : SVRenewNil(c, t)
    \/ \E c \in Cands, t \in Tasks : SVCreate(c, t)

\* The subscribers, and the sends that have to wait for them.
Subscribers ==
    \/ \E c \in Cands, l \in Listeners : RegisterUpdate(c, l)
    \/ \E c \in Cands, l \in Listeners : DeregisterUpdate(c, l)
    \/ \E c \in Cands : DeregisterUpdates(c)
    \/ \E c \in Cands, l \in Listeners : Receive(c, l)
    \/ \E c \in Cands : LRSend(c)

\* Requests that fail, and sessions that expire.
Failures ==
    \/ \E c \in Cands : LRGetErr(c)
    \/ \E c \in Cands : LRInfoErr(c)
    \/ \E c \in Cands : LRAcquireErr(c)
    \/ \E c \in Cands, t \in Tasks : SVRenewErr(c, t)
    \/ \E c \in Cands, t \in Tasks : SVDestroy(c, t)
    \/ \E c \in Cands, t \in Tasks : SVCreateErr(c, t)
    \/ \E c \in Cands : KACloseErr(c)
    \/ \E s \in SessionIDs : SessionExpire(s)

Waiters ==
    \/ \E c \in Cands : WaitCall(c)
    \/ \E c \in Cands : WaitPoll(c)

\* The candidates with an unreliable store.
Next == Election \/ Resignation \/ Subscribers \/ Failures

Spec == Init /\ [][Next]_vars

\* What the scheduler and a store that answers guarantee to one candidate's
\* tasks: each step that is possible is eventually taken.
TaskStep(c) ==
    \/ LRStart(c) \/ LRGetOk(c) \/ LRExit(c) \/ LRDecide(c) \/ LRInfoOk(c)
    \/ LRAcquire(c) \/ LRAcquireInvalid(c) \/ LRSend(c)
    \/ KAStart(c) \/ KAClose(c)
    \/ \E t \in Tasks : SVRenewOk(c, t) \/ SVRenewNil(c, t) \/ SVCreate(c, t)

\* Election with a store that answers every request, nobody resigning, and
\* callers of Wait().
NextLive == Election \/ Waiters

SpecLive ==
    /\ Init
    /\ [][NextLive]_vars
    /\ \A c \in Cands : WF_vars(TaskStep(c))
    /\ \A c \in Cands : WF_vars(WaitPoll(c))

\* Election and resignation with a store that answers every request, and
\* subscribers that take what is in their channel.
NextResign == Election \/ Resignation \/ Subscribers

SpecResign ==
    /\ Init
    /\ [][NextResign]_vars
    /\ \A c \in Cands : WF_vars(TaskStep(c))
    /\ \A c \in Cands : WF_vars(Resign(c)) /\ WF_vars(ResignReturn(c))
    /\ \A c \in Cands, l \in Listeners : WF_vars(Receive(c, l))

\* One candidate alone on the key, with one listener id more than in Spec,
\* an unreliable store, and a caller that resigns.
NextNotify ==
    \/ \E c \in NotifyCands : LRStart(c)
    \/ \E c \in NotifyCands : LRGetOk(c)
    \/ \E c \in NotifyCands : LRGetErr(c)
    \/ \E c \in NotifyCands : LRExit(c)
    \/ \E c \in NotifyCands : LRDecide(c)
    \/ \E c \in NotifyCands : LRInfoOk(c)
    \/ \E c \in NotifyCands : LRAcquire(c)
    \/ \E c \in NotifyCands : LRAcquireErr(c)
    \/ \E c \in NotifyCands : LRAcquireInvalid(c)
    \/ \E c \in NotifyCands : LRSend(c)
    \/ \E c \in NotifyCands : KAStart(c)
    \/ \E c \in NotifyCands : KAClose(c)
    \/ \E c \in NotifyCands : KACloseErr(c)
    \/ \E c \in NotifyCands, t \in Tasks : SVRenewOk(c, t)
    \/ \E c \in NotifyCands, t \in Tasks : SVRenewNil(c, t)
    \/ \E c \in NotifyCands, t \in Tasks : SVRenewErr(c, t)
    \/ \E c \in NotifyCands, t \in Tasks : SVDestroy(c, t)
    \/ \E c \in NotifyCands, t \in Tasks : SVCreate(c, t)
    \/ \E c \in NotifyCands, t \in Tasks : SVCreateErr(c, t)
    \/ \E c \in NotifyCands : ResignCall(c)
    \/ \E c \in NotifyCands : Resign(c)
    \/ \E c \in NotifyCands : ResignReturn(c)
    \/ \E c \in NotifyCands, l \in ManyListeners : RegisterUpdate(c, l)
    \/ \E c \in NotifyCands, l \in ManyListeners : DeregisterUpdate(c, l)
    \/ \E c \in NotifyCands : DeregisterUpdates(c)
    \/ \E c \in NotifyCands, l \in ManyListeners : Receive(c, l)
    \/ \E c \in NotifyCands : SessionExpire(sessionID[c])

SpecNotify == Init /\ [][NextNotify]_vars

\* One candidate and a store that cannot be reached for up to
\* MaxReadFailures reads in a row, with a caller that resigns.
NextBackoff ==
    \/ \E c \in NotifyCands : LRStart(c)
    \/ \E c \in NotifyCands : LRGetOutage(c)
    \/ \E c \in NotifyCands : LRGetOk(c)
    \/ \E c \in NotifyCands : LRExit(c)
    \/ \E c \in NotifyCands : LRDecide(c)
    \/ \E c \in NotifyCands : LRAcquire(c)
    \/ \E c \in NotifyCands : KAStart(c)
    \/ \E c \in NotifyCands : KAClose(c)
    \/ \E c \in NotifyCands : ResignCall(c)
    \/ \E c \in NotifyCands : Resign(c)
    \/ \E c \in NotifyCands : ResignReturn(c)

SpecBackoff == Init /\ [][NextBackoff]_vars

\* The same candidate, whose session has run out at the store before its
\* tasks have started: the first renewal finds no session, and the Create
\* that follows may fail.
InitExpired ==
    /\ sessions = Cands \ NotifyCands
    /\ lock = NilKV
    /\ created = 0
    /\ faults = 0
    /\ leader = [c \in Cands |-> FALSE]
    /\ closing = [c \in Cands |-> FALSE]
    /\ sessionID = [c \in Cands |-> c]
    /\ kvSession = [c \in Cands |-> c]
    /\ update = [c \in Cands |-> <<>>]
    /\ mu = [c \in Cands |-> FALSE]
    /\ wait = [c \in Cands |-> 0]
    /\ lrPC = [c \in Cands |-> "start"]
    /\ kv = [c \in Cands |-> NilKV]
    /\ checkWait = [c \in Cands |-> 0]
    /\ ulCall = [c \in Cands |-> NoCall]
    /\ pending = [c \in Cands |-> {}]
    /\ kaPC = [c \in Cands |-> "start"]
    /\ rsPC = [c \in Cands |-> "idle"]
    /\ waitPC = [c \in Cands |-> "idle"]
    /\ ledBy = [c \in Cands |-> NoSession]
    /\ call = NoReturn

SpecKeepAlive == InitExpired /\ [][NextNotify]_vars

\* Callers of LeaderService() on any candidate.
Lookups ==
    \/ \E c \in Cands : ForeignLeaderServiceGet(c)
    \/ \E c \in Cands : ForeignLeaderServiceInfo(c)
    \/ \E c \in Cands : ForeignLeaderServiceErr(c)

\* Election and resignation, with callers that look for the leader.
NextLookup == Election \/ Resignation \/ Lookups

SpecLookup == Init /\ [][NextLookup]_vars

\* Candidates are made, with every id, node name and TTL string of the
\* sets above, and their session names are parsed.
NextConstruct ==
    \/ \E id \in IDs, node \in NodeNames, token \in Tokens, ttl \in TTLRequests,
          ok \in BOOLEAN : NewCandidateCall(id, node, token, ttl, ok)
    \/ ParseCall

SpecConstruct == Init /\ [][NextConstruct]_vars

TypeOK ==
    /\ sessions \subseteq SessionIDs
    /\ lock \in {NilKV} \cup {<<s>> : s \in SessionIDs}
    /\ \A c \in Cands :
        /\ sessionID[c] \in SessionIDs
        /\ wait[c] \in 0..2
        /\ checkWait[c] \in 0..CandidateMaxWait
        /\ DOMAIN update[c] \subseteq ManyListeners
        /\ \A l \in DOMAIN update[c] : Len(update[c][l]) <= 1

\* ------------------------------------------------------------------ claims
Elected(c) == leader[c]

Holder == {c \in Cands : lock = <<sessionID[c]>>}

ResignDone(c) == rsPC[c] \in {"noop", "returned"}

\* C1 as stated: in every reachable state at most one candidate has its
\* leader flag true.
C1_AtMostOneElected ==
    \A c, d \in Cands : c # d => ~(Elected(c) /\ Elected(d))

\* C1 amended: at most one candidate has its leader flag true while the
\* session it was elected with is still alive at the store; a second flag is
\* true only as long as the session behind one of them is gone.
C1_AtMostOneLiveElected ==
    \A c, d \in Cands :
        c # d => ~(Elected(c) /\ Elected(d)
                    /\ ledBy[c] \in sessions /\ ledBy[d] \in sessions)

\* C1 witness: two flags true at once, one of them with a live session.
C1_Witness ==
    \E c, d \in Cands :
        c # d /\ Elected(c) /\ Elected(d) /\ lock = <<ledBy[d]>>

C3_ElectionLive ==
    /\ <>(Cardinality(Holder) = 1)
    /\ \A c \in Cands : (waitPC[c] = "polling") ~> (waitPC[c] = "returned")

\* C3 witness: one holder of the lock and every Wait() returned.
C3_Witness ==
    /\ Cardinality(Holder) = 1
    /\ \A c \in Cands : waitPC[c] = "returned"

\* C4: after a candidate has resigned, as long as a candidate is left that
\* has not, eventually one of those is leader, its session holds the lock and
\* LeaderService() returns that session.
C4_ReElection ==
    \A c \in Cands :
        (closing[c] /\ \E d \in Cands : ~closing[d])
            ~> \/ \A d \in Cands : closing[d]
               \/ \E d \in Cands :
                    /\ ~closing[d]
                    /\ Elected(d)
                    /\ lock = <<sessionID[d]>>
                    /\ LeaderService = sessionID[d]

\* C4 witness: the candidate that held the lock when its loop ended has
\* resigned, and another one is leader.
C4_Witness ==
    \E c, d \in Cands :
        /\ rsPC[c] = "returned" /\ lrPC[c] = "done" /\ kv[c] = <<sessionID[c]>>
        /\ ~closing[d] /\ Elected(d) /\ LeaderService = sessionID[d]

\* C5 as stated: when the Resign() call that set closing returns, both tasks
\* of the candidate have terminated.
C5_ResignJoinsTasks ==
    \A c \in Cands :
        rsPC[c] = "returned" => lrPC[c] = "done" /\ kaPC[c] = "done"

\* C6 as stated: once every candidate has returned from Resign(),
\* LeaderService() finds no leader.
C6_NoLeaderAfterResign ==
    (\A c \in Cands : ResignDone(c)) => LeaderService = NoSession

\* C7: with a store that answers every request and subscribers that drain
\* their channels, every Resign() call returns; once closing is set, the
\* lock loop ends at its next successful read and the keep-alive task at its
\* next tick.
C7_ResignTerminates ==
    /\ \A c \in Cands : (rsPC[c] = "called") ~> ResignDone(c)
    /\ [][\A c \in Cands :
            closing[c] =>
                /\ lrPC[c] = "get" /\ lrPC'[c] # "get" => lrPC'[c] = "done"
                /\ kaPC[c] = "tick" /\ kaPC'[c] # "tick" => kaPC'[c] = "done"]_vars

\* C7 witness: a Resign() that waited has returned with both tasks ended.
C7_Witness ==
    \E c \in Cands :
        rsPC[c] = "returned" /\ lrPC[c] = "done" /\ kaPC[c] = "done"

\* C8: a Resign() call made while closing is set and the leader flag is not
\* returns without changing the candidate or the store; and the call that
\* does the work leaves the state in which the next call is of that kind.
C8_ResignIdempotent ==
    [][\A c \in Cands :
        /\ rsPC[c] = "called" /\ rsPC'[c] # "called" /\ closing[c] /\ ~leader[c]
            => /\ rsPC'[c] = "noop"
               /\ UNCHANGED <<leader, closing, sessionID, kvSession, update,
                              wait, storeVars>>
        /\ rsPC[c] = "called" /\ rsPC'[c] = "waiting"
            => closing'[c] /\ ~leader'[c]]_vars

\* C8 witness: a Resign() call has returned from the early exit.
C8_Witness ==
    \E c \in Cands : rsPC[c] = "noop" /\ closing[c] /\ ~leader[c]

\* C9 as stated: the lock loop is never stopped inside the guarded region at
\* the full channel of a subscriber.
C9_SendNeverBlocks ==
    \A c \in Cands : ~(mu[c] /\ \E l \in pending[c] : ~CanSend(c, l))

\* C10 as stated: every change of the leader flag comes with a send of the
\* new value to every registered channel.
C10_TransitionNotified ==
    [][\A c \in Cands :
        leader'[c] # leader[c] =>
            \A l \in DOMAIN update[c] :
                \/ update'[c][l] = <<leader'[c]>> /\ update[c][l] = <<>>
                \/ lrPC[c] = "send" /\ l \notin pending[c]]_vars

\* C11 as stated: a listener registered with an empty channel receives, in
\* the step in which the leader flag changes, exactly the new value of the
\* flag; and a step that leaves the flag as it is puts nothing into the
\* channel.  (The sends of an updateLeader that had to wait at a full
\* channel come before its flag update; they are taken with that update.)
C11_SingleNotification ==
    [][\A c \in Cands :
        \A l \in DOMAIN update[c] \cap DOMAIN update'[c] :
            update[c][l] = <<>> =>
                IF leader'[c] # leader[c]
                THEN \/ update'[c][l] = <<leader'[c]>>
                     \/ lrPC[c] = "send" /\ l \notin pending[c]
                ELSE \/ update'[c][l] = <<>>
                     \/ lrPC[c] = "send"]_vars

\* C12: RegisterUpdate with a registered id leaves the registry, the channel
\* of that id and what is in it as they are; a send in progress goes to
\* registered channels only; no step puts a value into the channel of an id
\* that is not registered (an id that comes into the registry comes with an
\* empty channel); and a step that takes ids out of the registry leaves the
\* channels of the ids that stay as they are.
C12_RegistryFrame ==
    /\ [](\A c \in Cands :
            /\ \A l \in DOMAIN update[c] : Registered(c, l) = update[c]
            /\ pending[c] \subseteq DOMAIN update[c])
    /\ [][\A c \in Cands :
            /\ \A l \in DOMAIN update'[c] \ DOMAIN update[c] :
                    update'[c][l] = <<>>
            /\ DOMAIN update'[c] # DOMAIN update[c]
                    => \A x \in DOMAIN update'[c] \cap DOMAIN update[c] :
                            update'[c][x] = update[c][x]]_vars

\* C12 witness: after both changes of the flag one listener has the last
\* value waiting in its channel, and the other id is out of the registry.
C12_Witness ==
    \E c \in Cands : \E l \in DOMAIN update[c] :
        /\ update[c][l] = <<FALSE>>
        /\ ~leader[c] /\ ~closing[c]
        /\ DOMAIN update[c] = {l}

\* C13 as stated: NewCandidate accepts an id (between the spaces around it)
\* only if it is not empty and every character of it is in the class
\* [A-Za-z0-9:._-]; and when it gives the validation error, no Create
\* request has been sent and no task started.
C13_IDValidation ==
    call.op = "NewCandidate" =>
        LET id == TrimSpace(call.arg.id) IN
        /\ call.ret.err # "id"
                => id # <<>> /\ \A k \in 1..Len(id) : id[k] \in ValidIDChars
        /\ call.ret.err = "id" => ~call.ret.createSent /\ ~call.ret.started

\* C14 as stated: the session name of every candidate that NewCandidate
\* returns parses, into the prefix "leader", the id of the candidate, the
\* node name and the token.
C14_NameRoundTrip ==
    call.op = "ParseCandidateSessionName" =>
        /\ ~call.ret.err
        /\ call.ret.parts = [Prefix |-> <<"leader">>, ID |-> call.arg.id,
                             NodeName |-> call.arg.node,
                             RandomUUID |-> call.arg.token]

\* C15: for every TTL string that parses, the TTL sent to the store is "10s"
\* below 10 seconds, "86400s" above 86400 seconds and the string itself in
\* between, with "30s" for the empty string; it is a duration of 10 to
\* 86400 seconds; and SessionTTL() is the duration asked for, whatever the
\* limits.
C15_TTLClamp ==
    call.op = "NewCandidate" /\ call.ret.err \notin {"id", "ttl"} =>
        LET req == IF call.arg.ttl = EmptyTTL THEN <<30, "s">> ELSE call.arg.ttl
            ms == req[1] * UnitMs(req[2])
            wire == call.ret.wireTTL
        IN  /\ ms < 10 * 1000 => wire = <<10, "s">>
            /\ ms > 86400 * 1000 => wire = <<86400, "s">>
            /\ ms >= 10 * 1000 /\ ms <= 86400 * 1000 => wire = req
            /\ wire[1] * UnitMs(wire[2]) \in (10 * 1000)..(86400 * 1000)
            /\ call.ret.sessionTTL = ms

\* C15 witness: candidates made with "1s", with "25h" and with "", which
\* got "10s", "86400s" and "30s" and kept 1 second, 25 hours and 30 seconds.
C15_Witness ==
    /\ call.op = "NewCandidate" /\ call.ret.err = ""
    /\ \/ call.arg.ttl = <<1, "s">> /\ call.ret.wireTTL = <<10, "s">>
            /\ call.ret.sessionTTL = 1000
       \/ call.arg.ttl = <<25, "h">> /\ call.ret.wireTTL = <<86400, "s">>
            /\ call.ret.sessionTTL = 25 * 3600000
       \/ call.arg.ttl = EmptyTTL /\ call.ret.wireTTL = <<30, "s">>
            /\ call.ret.sessionTTL = 30000

\* C16: a step of ForeignLeaderService changes nothing of the candidate
\* (leader, closing, sessionID, the lock pair, the registry) and nothing of
\* the store; and what it returns is the session on the lock entry exactly
\* when the Get was answered with an entry that has a session and the Info
\* was answered with that session, and (nil, error) otherwise, whoever the
\* candidate is that it was called on.
C16_LookupIndependent ==
    [][call' # call /\ call'.op = "ForeignLeaderService" =>
        /\ UNCHANGED <<leader, closing, sessionID, kvSession, update, sessions,
                       lock>>
        /\ call'.ret.done =>
            LET k == IF call.op = "ForeignLeaderService" /\ ~call.ret.done
                     THEN call.arg.kv ELSE lock
                found == /\ faults' = faults
                         /\ k # NilKV
                         /\ k[1] # NoSession
                         /\ k[1] \in sessions
            IN  /\ call'.ret.se # NoSession <=> found
                /\ found => call'.ret.se = k[1]]_vars

\* C16 witness: a call on a candidate that has resigned returned the
\* session of the other candidate, which is leader.
C16_Witness ==
    /\ call.op = "ForeignLeaderService"
    /\ call.ret.done
    /\ rsPC[call.arg.who] = "returned"
    /\ \E d \in Cands :
        d # call.arg.who /\ leader[d] /\ call.ret.se = sessionID[d]

\* C17 as stated: while closing is set the lock loop sends no Acquire
\* request, wherever in its iteration it was when the flag was set.
C17_NoAcquireWhenClosing ==
    [][\A c \in Cands :
        closing[c] => ~(lrPC[c] = "acquire" /\ lrPC'[c] # "acquire")]_vars

\* C18 as stated: once the keep-alive task has seen closing and sent its
\* Destroy, no task of the candidate sends a Create request.
C18_NoCreateAfterShutdown ==
    [][\A c \in Cands, t \in Tasks :
        kaPC[c] = "done" => ~(PCOf(c, t) = "svCreate" /\ PCOf(c, t)' # "svCreate")]_vars

\* C19 as stated: in every state in which a Resign() call of a candidate
\* has returned, Elected() is false.
C19_ResignedNotElected ==
    \A c \in Cands : closing[c] /\ ResignDone(c) => ~Elected(c)

\* C20 as stated: every session alive at the store is the current session
\* of a candidate, and the lock entry, when there is one, is held by the
\* current session of a candidate.
C20_NoOrphanSessions ==
    /\ \A s \in sessions : \E c \in Cands : sessionID[c] = s
    /\ lock # NilKV => \E c \in Cands : lock = <<sessionID[c]>>

\* Where lockRunner goes on after the step: through a waiting updateLeader
\* to the position that call returns to.
LRTarget(c) == IF lrPC[c] = "send" THEN ulCall[c].next ELSE lrPC[c]

\* C21: lockRunner goes on to the Acquire request from the decision on the
\* read exactly when the read gave no entry or an entry without session,
\* and from the session lookup exactly when the lookup was answered and
\* found no session; from nowhere else.  An entry held by its own session,
\* or by a session the lookup finds, is followed by no Acquire in that
\* iteration.  When the Acquire request is sent the leader flag is false.
C21_AcquireOnlyWhenFree ==
    [][\A c \in Cands :
        /\ lrPC[c] = "decide" /\ lrPC'[c] # "decide"
            => (LRTarget(c)' = "acquire"
                    <=> kv[c] = NilKV \/ kv[c][1] = NoSession)
        /\ lrPC[c] = "info" /\ lrPC'[c] # "info"
            => (LRTarget(c)' = "acquire"
                    <=> kv[c][1] \notin sessions /\ faults' = faults)
        /\ lrPC[c] \notin {"decide", "info", "send", "acquire"}
            => LRTarget(c)' # "acquire"
        /\ lrPC[c] = "send" => LRTarget(c)' = LRTarget(c)
        /\ lrPC[c] = "acquire" /\ lrPC'[c] # "acquire" => ~leader[c]]_vars

\* C21 witness: one candidate is leader with the lock, and another one, that
\* has read the entry and found the session on it, is back at its read
\* without the lock and without the flag.
C21_Witness ==
    \E c, d \in Cands :
        /\ c # d
        /\ Elected(c) /\ lock = <<sessionID[c]>>
        /\ lrPC[d] = "get" /\ kv[d] = lock /\ ~Elected(d) /\ ~closing[d]

\* The position at which sessionValidate returns to task t.
SVReturn(t) == IF t = "lr" THEN "get" ELSE "tick"

\* What C22 says of Create in both readings: a Create that is answered makes
\* a new session the session of the candidate and of its lock pair, a
\* Create that fails leaves both as they are, and either way the task goes
\* on; the Destroy is followed by the Create whatever its outcome.
SVCreateProtocol(c, t) ==
    /\ PCOf(c, t) = "svDestroy" /\ PCOf(c, t)' # "svDestroy"
        => PCOf(c, t)' = "svCreate" /\ sessionID'[c] = sessionID[c]
    /\ PCOf(c, t) = "svCreate" /\ PCOf(c, t)' # "svCreate"
        => /\ PCOf(c, t)' = SVReturn(t)
           /\ IF faults' = faults
              THEN /\ sessionID'[c] \notin sessions
                   /\ sessionID'[c] \in sessions'
                   /\ kvSession'[c] = sessionID'[c]
              ELSE /\ sessionID'[c] = sessionID[c]
                   /\ kvSession'[c] = kvSession[c]
                   /\ sessions' = sessions

\* C22 as stated: a renewal that fails, and a renewal that is answered
\* "not found", are both followed by a Destroy and then a Create.
C22_DestroyThenCreate ==
    [][\A c \in Cands, t \in Tasks :
        /\ AtRenew(c, t) /\ PCOf(c, t)' # PCOf(c, t)
                /\ (faults' # faults \/ sessionID[c] \notin sessions)
            => PCOf(c, t)' = "svDestroy"
        /\ SVCreateProtocol(c, t)]_vars

\* C22 amended: a renewal that fails is followed by a Destroy of the current
\* session id and then a Create; a renewal that is answered "not found" is
\* followed by the Create at once, without Destroy; a renewal that is
\* answered with the session is followed by neither.
C22_RebuildProtocol ==
    [][\A c \in Cands, t \in Tasks :
        /\ AtRenew(c, t) /\ PCOf(c, t)' # PCOf(c, t)
            => /\ faults' # faults => PCOf(c, t)' = "svDestroy"
               /\ faults' = faults /\ sessionID[c] \notin sessions
                    => PCOf(c, t)' = "svCreate"
               /\ faults' = faults /\ sessionID[c] \in sessions
                    => PCOf(c, t)' = SVReturn(t)
               /\ sessionID'[c] = sessionID[c] /\ sessions' = sessions
        /\ SVCreateProtocol(c, t)]_vars

\* C22 witness: a candidate whose first session is gone has the session of
\* a rebuild, alive at the store, and the lock is free.
C22_Witness ==
    \E c \in Cands :
        /\ sessionID[c] # c /\ c \notin sessions
        /\ sessionID[c] \in sessions
        /\ lock = NilKV

\* C23 as stated: in no state is a task about to read sessionID, leader or
\* closing without the mutex while another task or caller is about to
\* write that field.
C23_GuardedAccess ==
    \A c \in Cands, t \in Tasks, a \in Agents :
        a # t => ReadsUnguarded(c, t) \cap Writes(c, a) = {}

\* C24: whenever mu is not held, the session of the lock pair, which is the
\* session the Acquire request is made with, is the session id of the
\* candidate.
C24_PairInStep ==
    \A c \in Cands : ~mu[c] => kvSession[c] = sessionID[c]

\* C24 witness: a candidate holds the lock with the session of a rebuild,
\* which is its session id and the session of its lock pair.
C24_Witness ==
    \E c \in Cands :
        /\ ~mu[c]
        /\ sessionID[c] # c
        /\ kvSession[c] = sessionID[c]
        /\ lock = <<kvSession[c]>>

\* C25: no step takes closing from true to false, and a task that has
\* returned stays returned.
C25_ClosingMonotonic ==
    [][\A c \in Cands :
        /\ closing[c] => closing'[c]
        /\ lrPC[c] = "done" => lrPC'[c] = "done"
        /\ kaPC[c] = "done" => kaPC'[c] = "done"]_vars

\* C25 witness: after both tasks have returned, a further Resign() has
\* come back from the early return, and closing is set as before.
C25_Witness ==
    \E c \in Cands :
        /\ closing[c]
        /\ lrPC[c] = "done" /\ kaPC[c] = "done"
        /\ rsPC[c] = "noop"

\* C26: sessionKeepAlive returns only from a tick at which closing is set;
\* from a tick at which it is not set, and from every request of
\* sessionValidate whatever its answer, the task goes on inside
\* sessionValidate or back to the next tick; and at a tick at which closing
\* is not set and mu is free the renewal is what the task does next.
C26_KeepAliveEndsOnClosing ==
    /\ [](\A c \in Cands :
            kaPC[c] = "tick" /\ ~closing[c] /\ ~mu[c]
                => ENABLED (SVRenewOk(c, "ka") \/ SVRenewNil(c, "ka")))
    /\ [][\A c \in Cands :
            /\ kaPC[c] # "done" /\ kaPC'[c] = "done"
                => kaPC[c] = "tick" /\ closing[c]
            /\ kaPC[c] = "tick" /\ ~closing[c]
                => kaPC'[c] \in {"tick", "svDestroy", "svCreate"}
            /\ kaPC[c] = "svDestroy" => kaPC'[c] \in {"svDestroy", "svCreate"}
            /\ kaPC[c] = "svCreate" => kaPC'[c] \in {"svCreate", "tick"}]_vars

\* C26 witness: the Create of sessionKeepAlive has failed (lockRunner has
\* not started yet), and the task is at its next tick, closing not set,
\* with the session still missing.
C26_Witness ==
    \E c \in Cands :
        /\ lrPC[c] = "start"
        /\ kaPC[c] = "tick" /\ ~closing[c]
        /\ sessionID[c] \notin sessions /\ faults = 1

\* C27 as stated: for every candidate that NewCandidate returns, the ticker
\* interval of its keep-alive task is shorter than the TTL sent to the
\* store.
C27_KeepAliveOutpacesExpiry ==
    call.op = "NewCandidate" /\ call.ret.started =>
        call.ret.sleepDuration < call.ret.wireTTL[1] * UnitMs(call.ret.wireTTL[2])

\* C28: the retry counter is always in 0..10; the sleep after the k-th read
\* that fails in a row is min(k, 10) seconds, which is the counter; a read
\* that is answered sets the counter to 0, so that the sleep after the
\* first failure that follows is 1 second.
C28_LinearCappedBackoff ==
    /\ [](\A c \in Cands : checkWait[c] \in 0..10)
    /\ [][\A c \in Cands :
            /\ call' # call /\ call'.op = "time.Sleep" /\ call'.arg.who = c
                => /\ call'.ret = IF call'.arg.failed < 10
                                  THEN call'.arg.failed ELSE 10
                   /\ checkWait'[c] = call'.ret
                   /\ checkWait[c] = 0 => call'.ret = 1
            /\ lrPC[c] = "get" /\ lrPC'[c] \in {"decide", "done"}
                => checkWait'[c] = 0]_vars

\* C28 witness: the eleventh read in a row has failed and the loop sleeps
\* 10 seconds.
C28_Witness ==
    /\ call.op = "time.Sleep"
    /\ call.arg.failed = 11
    /\ call.ret = 10
    /\ checkWait[call.arg.who] = 10

====
